---- MODULE Spec2Model ----
(***************************************************************************)
(* Model of the WCAG scanner (wcag_scanner.py, app.py, flask_app.py).      *)
(*                                                                         *)
(* A parsed document (the BeautifulSoup tree built at wcag_scanner.py:197) *)
(* is a sequence of nodes in document order.  Node 0 is the BeautifulSoup  *)
(* object itself (the root); every other node names its parent by index.   *)
(* Python strings on which the code works character by character (alt      *)
(* values, text nodes) are sequences of one-character strings; attribute   *)
(* values that are only compared as a whole are TLA+ strings.  An          *)
(* attribute is <<>> when absent (Tag.get returns None) and <<v>> when     *)
(* present with value v.                                                   *)
(***************************************************************************)
EXTENDS Integers, Sequences, FiniteSets, TLC

VARIABLES doc, pc, issues, status_sheet, details_sheet, request, handled,
          saved, earlier, tasks, tmp, now

vars == <<doc, pc, issues, status_sheet, details_sheet, request, handled,
          saved, earlier, tasks, tmp, now>>

scan_vars == <<doc, pc, issues, status_sheet, details_sheet, saved, earlier>>

serve_vars == <<tasks, tmp, now>>

(***************************************************************************)
(* Bounds of the model.                                                    *)
(***************************************************************************)
MaxImgNodes == 4
MaxFormNodes == 3
MaxLinkNodes == 4
MaxMixNodes == 4

(***************************************************************************)
(* Python str operations.                                                  *)
(***************************************************************************)
Whitespace == {" ", "\t", "\n"}

UpperChars == <<"A","B","C","D","E","F","G","H","I","J","K","L","M",
                "N","O","P","Q","R","S","T","U","V","W","X","Y","Z">>
LowerChars == <<"a","b","c","d","e","f","g","h","i","j","k","l","m",
                "n","o","p","q","r","s","t","u","v","w","x","y","z">>

lower_char(c) ==
  IF \E k \in 1..26 : UpperChars[k] = c
  THEN LowerChars[CHOOSE k \in 1..26 : UpperChars[k] = c]
  ELSE c

lower(s) == [k \in 1..Len(s) |-> lower_char(s[k])]

RECURSIVE lstrip(_)
lstrip(s) ==
  IF s # <<>> /\ Head(s) \in Whitespace THEN lstrip(Tail(s)) ELSE s

RECURSIVE rstrip(_)
rstrip(s) ==
  IF s # <<>> /\ s[Len(s)] \in Whitespace
  THEN rstrip(SubSeq(s, 1, Len(s) - 1))
  ELSE s

strip(s) == rstrip(lstrip(s))

startswith(s, p) == Len(s) >= Len(p) /\ SubSeq(s, 1, Len(p)) = p

(***************************************************************************)
(* The parsed tree.                                                        *)
(***************************************************************************)
Absent == <<>>

\* Tags html.parser treats as void: they never get children.
VoidTags == {"img", "input"}

Node(tag) ==
  [tag |-> tag, parent |-> 0, alt |-> Absent, type |-> Absent, id |-> Absent,
   for |-> Absent, href |-> Absent, text |-> <<>>]

IsText(d, i) == d[i].tag = "#text"

\* Tag.parents: the chain of ancestors of node i, nearest first, root (0) last.
RECURSIVE parents(_, _)
parents(d, i) ==
  IF i = 0 THEN <<>> ELSE <<d[i].parent>> \o parents(d, d[i].parent)

Range(s) == {s[k] : k \in DOMAIN s}

\* The descendants of node p (every node when p is the root), in document order.
descendants(d, p) ==
  SelectSeq([k \in 1..Len(d) |-> k], LAMBDA i : p \in Range(parents(d, i)))

\* Tag.find_all(names): the descendants with one of the tag names, in document
\* order (find_all is recursive by default).
find_all(d, p, names) ==
  SelectSeq(descendants(d, p), LAMBDA i : d[i].tag \in names)

children(d, p) ==
  SelectSeq([k \in 1..Len(d) |-> k], LAMBDA i : d[i].parent = p)

\* The markup of node i: what str(tag) prints and what Tag.__eq__ compares
\* (name, attributes and contents, recursively).
RECURSIVE markup(_, _)
markup(d, i) ==
  [tag |-> d[i].tag, alt |-> d[i].alt, type |-> d[i].type, id |-> d[i].id,
   for |-> d[i].for, href |-> d[i].href, text |-> d[i].text,
   contents |-> [k \in 1..Len(children(d, i)) |-> markup(d, children(d, i)[k])]]

\* Tag.__eq__: the same object, or equal name, attributes and contents.
tag_eq(d, i, j) == i = j \/ markup(d, i) = markup(d, j)

\* list.index(x): the position of the first item equal (==) to x.
list_index(d, lst, x) ==
  CHOOSE k \in 1..Len(lst) :
    /\ tag_eq(d, lst[k], x)
    /\ \A m \in 1..(k - 1) : ~tag_eq(d, lst[m], x)

\* index = list(el.parent.find_all(el.name)).index(el) + 1, with the ValueError
\* fallback of 1 (list_index above is 0-based in Python, 1-based here).
nth_index(d, i, names) ==
  LET lst == find_all(d, d[i].parent, names) IN
  IF \E k \in 1..Len(lst) : tag_eq(d, lst[k], i)
  THEN list_index(d, lst, i)
  ELSE 1

\* Tag.get_text(): all contained strings, concatenated in document order.
RECURSIVE concat(_, _, _)
concat(d, lst, k) ==
  IF k > Len(lst) THEN <<>> ELSE d[lst[k]].text \o concat(d, lst, k + 1)

get_text(d, i) == concat(d, find_all(d, i, {"#text"}), 1)

\* One finding.  node is the document position of the flagged element: it is not
\* a key of the Python dict, it only lets properties name the element.  context
\* is the element's markup (the cut to 200 characters of str(el)[:200] is left
\* out), selector the pair behind f"{tag}:nth-of-type({index})".
Issue(d, i, rule, principle, criterion, description, recommendation, index) ==
  [rule |-> rule, wcag_principle |-> principle,
   wcag_success_criterion |-> criterion, level |-> "A",
   description |-> description, context |-> markup(d, i),
   selector |-> [tag |-> d[i].tag, nth |-> index],
   recommendation |-> recommendation, node |-> i]

(***************************************************************************)
(* check_images_have_alt                                                   *)
(***************************************************************************)
alt_missing_nostrip(alt) == alt = Absent \/ alt[1] = <<>>

\* alt is None or alt.strip() == ''
alt_missing(alt) == alt = Absent \/ strip(alt[1]) = <<>>

RECURSIVE img_loop(_, _, _)
img_loop(d, imgs, k) ==
  IF k > Len(imgs) THEN <<>>
  ELSE LET img == imgs[k] IN
       (IF alt_missing(d[img].alt)
        THEN <<Issue(d, img, "IMG_ALT", "Perceivable", "1.1.1 Non-text Content",
                     "Image elements must have a text alternative (alt attribute).",
                     "Add a descriptive alt attribute to the <img> element.",
                     nth_index(d, img, {"img"}))>>
        ELSE <<>>) \o img_loop(d, imgs, k + 1)

check_images_have_alt(d) == img_loop(d, find_all(d, 0, {"img"}), 1)

(***************************************************************************)
(* check_form_inputs_have_labels                                           *)
(***************************************************************************)
excluded_types_short == {"hidden", "submit", "button"}

excluded_types == {"hidden", "submit", "button", "image"}

\* control.name == 'input' and control.get('type') in [...]
is_excluded(d, c) ==
  d[c].tag = "input" /\ d[c].type # Absent /\ d[c].type[1] \in excluded_types

\* for parent in control.parents: if parent.name == 'label'
wrapped_by_label(d, c) ==
  \E p \in Range(parents(d, c)) : p # 0 /\ d[p].tag = "label"

\* control_id = control.get('id'); if control_id: soup.find('label', attrs={'for': control_id})
label_for_id(d, c) ==
  /\ d[c].id # Absent
  /\ d[c].id[1] # ""
  /\ \E l \in Range(find_all(d, 0, {"label"})) : d[l].for = d[c].id

has_label(d, c) == wrapped_by_label(d, c) \/ label_for_id(d, c)

RECURSIVE control_loop(_, _, _)
control_loop(d, form_controls, k) ==
  IF k > Len(form_controls) THEN <<>>
  ELSE LET control == form_controls[k] IN
       (IF ~is_excluded(d, control) /\ ~has_label(d, control)
        THEN <<Issue(d, control, "FORM_LABEL", "Understandable",
                     "3.3.2 Labels or Instructions / 1.3.1 Info and Relationships",
                     "Form controls must have associated labels.",
                     "Add a <label> element referencing the control or wrap the control in a <label>.",
                     nth_index(d, control, {d[control].tag}))>>
        ELSE <<>>) \o control_loop(d, form_controls, k + 1)

check_form_inputs_have_labels(d) ==
  control_loop(d, find_all(d, 0, {"input", "select", "textarea"}), 1)

(***************************************************************************)
(* check_links_have_descriptive_text                                       *)
(***************************************************************************)
click_here == <<"c","l","i","c","k"," ","h","e","r","e">>
more == <<"m","o","r","e">>
read_more == <<"r","e","a","d"," ","m","o","r","e">>
learn_more == <<"l","e","a","r","n"," ","m","o","r","e">>
details == <<"d","e","t","a","i","l","s">>

generic_phrases == {click_here, more, read_more, learn_more, details}

is_generic_prefix(text) ==
  text = <<>> \/ \E phrase \in generic_phrases : startswith(text, phrase)

\* not text or any(text == phrase or text.startswith(phrase + ' ') ...)
is_generic(text) ==
  \/ text = <<>>
  \/ \E phrase \in generic_phrases :
       text = phrase \/ startswith(text, phrase \o <<" ">>)

all_anchors(d) == find_all(d, 0, {"a"})

\* soup.find_all('a', href=True): the anchors whose href is not None.
anchors_with_href(d) ==
  SelectSeq(find_all(d, 0, {"a"}), LAMBDA i : d[i].href # Absent)

\* link.get_text().strip().lower()
link_text(d, link) == lower(strip(get_text(d, link)))

RECURSIVE link_loop(_, _, _)
link_loop(d, links, k) ==
  IF k > Len(links) THEN <<>>
  ELSE LET link == links[k] IN
       (IF is_generic(link_text(d, link))
        THEN <<Issue(d, link, "LINK_TEXT", "Understandable",
                     "2.4.4 Link Purpose (In Context)",
                     "Link text should be descriptive and convey the purpose of the link.",
                     "Replace generic link text with text that describes the destination or action.",
                     nth_index(d, link, {"a"}))>>
        ELSE <<>>) \o link_loop(d, links, k + 1)

check_links_have_descriptive_text(d) == link_loop(d, anchors_with_href(d), 1)

(***************************************************************************)
(* run_accessibility_checks                                                *)
(***************************************************************************)
\* The three checks appending to the list the last call left, as with a list
\* shared between calls.
run_checks_on_kept_list(d) ==
  issues \o check_images_have_alt(d) \o check_form_inputs_have_labels(d)
    \o check_links_have_descriptive_text(d)

run_checks_links_first(d) ==
  check_links_have_descriptive_text(d) \o check_images_have_alt(d)
    \o check_form_inputs_have_labels(d)

run_accessibility_checks(d) ==
  check_images_have_alt(d) \o check_form_inputs_have_labels(d)
    \o check_links_have_descriptive_text(d)

(***************************************************************************)
(* write_report.  A finding record is a function from the keys it sets to   *)
(* their values.  A worksheet cell holds a typed value: a str, an int, or   *)
(* the float NaN pandas puts where a record lacks a key that another record *)
(* of the list has.                                                         *)
(***************************************************************************)
Str(v) == [t |-> "str", v |-> v]
Num(n) == [t |-> "int", v |-> n]
NaN == [t |-> "float", v |-> "nan"]

expected_cols ==
  <<"rule", "wcag_principle", "wcag_success_criterion", "level",
    "description", "context", "selector", "recommendation">>

\* df = pd.DataFrame(issues): the columns are the keys any record sets.
df_columns(iss) == UNION {DOMAIN iss[k] : k \in DOMAIN iss}

\* The value of column col in row k of df after the loop that adds the missing
\* expected columns with '' (wcag_scanner.py:243-245).
frame_cell(iss, k, col) ==
  IF col \in df_columns(iss)
  THEN (IF col \in DOMAIN iss[k] THEN Str(iss[k][col]) ELSE NaN)
  ELSE Str("")

\* int((df['rule'] == rule).sum())
rule_count(iss, rule) ==
  Cardinality({k \in DOMAIN iss : frame_cell(iss, k, "rule") = Str(rule)})

status_header ==
  <<"URL", "Missing Alt Text", "Unlabelled Form Controls", "Generic Link Text",
    "Total Issues">>

pass_fail(value) == IF value = 0 THEN Str("Pass") ELSE Str("Fail")

\* The header and the data row written to the 'Status' sheet.
status_rows(iss, url) ==
  LET url_display == IF url = Absent \/ url[1] = "" THEN "N/A" ELSE url[1] IN
  [header |-> status_header,
   data |-> <<Str(url_display),
              pass_fail(rule_count(iss, "IMG_ALT")),
              pass_fail(rule_count(iss, "FORM_LABEL")),
              pass_fail(rule_count(iss, "LINK_TEXT")),
              Num(Len(iss))>>]

\* The header and the rows appended to the 'Issues' sheet: df.iterrows().
details_rows(iss) ==
  [header |-> expected_cols,
   rows |-> [k \in 1..Len(iss) |->
               [c \in 1..Len(expected_cols) |-> frame_cell(iss, k, expected_cols[c])]]]

\* What the file system and the libraries answer about logo_path: whether it is
\* a file (os.path.isfile), whether XLImage(logo_path) returns or raises, and
\* whether wb.save can read the image's data when it embeds it.
LogoAnswers ==
  {[path |-> "", isfile |-> FALSE, loads |-> FALSE, embeds |-> FALSE],
   [path |-> "logo.png", isfile |-> FALSE, loads |-> FALSE, embeds |-> FALSE],
   [path |-> "logo.png", isfile |-> TRUE, loads |-> FALSE, embeds |-> FALSE],
   [path |-> "logo.png", isfile |-> TRUE, loads |-> TRUE, embeds |-> FALSE],
   [path |-> "logo.png", isfile |-> TRUE, loads |-> TRUE, embeds |-> TRUE]}

\* Whether the font, fill, border, alignment and column-width statements run
\* through or one of them raises.
StylingAnswers == {"styled", "raises"}

\* if logo_path and os.path.isfile(logo_path): try: XLImage ... add_image
\* except Exception: the sheet gets the image only when all of it succeeds, and
\* nothing is raised otherwise.
insert_logo(logo) == logo.path # "" /\ logo.isfile /\ logo.loads

\* write_report(issues, output_path, logo_path, url): the summary sheet (logo,
\* header and data row, styling), the details sheet (logo, header, rows,
\* styling), then wb.save(output_path).  Only the two logo steps are inside a
\* try; an exception anywhere else leaves the function before or in wb.save.
write_report(iss, output_path, logo, styling, url) ==
  LET wb == [status |-> status_rows(iss, url),
             details |-> details_rows(iss),
             status_logo |-> insert_logo(logo),
             details_logo |-> insert_logo(logo)]
  IN IF styling = "raises"
     THEN [raised |-> TRUE, saved |-> <<>>]
     ELSE IF (wb.status_logo \/ wb.details_logo) /\ ~logo.embeds
     THEN [raised |-> TRUE, saved |-> <<>>]
     ELSE [raised |-> FALSE, saved |-> <<[path |-> output_path, workbook |-> wb]>>]

(***************************************************************************)
(* Documents the scan is run on.                                           *)
(***************************************************************************)
Img(alt) == [Node("img") EXCEPT !.alt = alt]
Control(tag, type, id) == [Node(tag) EXCEPT !.type = type, !.id = id]
Label(for) == [Node("label") EXCEPT !.for = for]
Anchor(href) == [Node("a") EXCEPT !.href = href]
Text(s) == [Node("#text") EXCEPT !.text = s]

\* The elements still open after node i was parsed: where the next node can go.
open_parents(d) ==
  IF d = <<>> THEN {0}
  ELSE {p \in {Len(d)} \cup Range(parents(d, Len(d))) :
          p = 0 \/ (d[p].tag \notin VoidTags /\ ~IsText(d, p))}

\* The parser merges adjacent strings: a text node never directly follows a text
\* node under the same parent.
can_append(d, e, p) ==
  ~(e.tag = "#text" /\ children(d, p) # <<>>
      /\ IsText(d, children(d, p)[Len(children(d, p))]))

ImgPalette ==
  {Img(Absent), Img(<< <<>> >>), Img(<< <<" ">> >>), Img(<< <<"\t", "\n">> >>),
   Img(<< <<"l","o","g","o">> >>), Img(<< <<" ","a"," ">> >>), Node("div")}

FormPalette ==
  {Control("input", t, i) :
     t \in {Absent, <<"text">>, <<"hidden">>, <<"submit">>, <<"button">>, <<"image">>},
     i \in {Absent, <<"x">>}}
  \cup {Control("input", Absent, <<"">>),
        Control("select", Absent, Absent), Control("select", <<"hidden">>, <<"x">>),
        Control("textarea", Absent, Absent),
        Label(Absent), Label(<<"x">>), Label(<<"">>), Node("div")}

T_ClickHere == <<"C","l","i","c","k"," ","H","e","r","e">>
T_click_here_for_info ==
  <<"c","l","i","c","k"," ","h","e","r","e"," ","f","o","r"," ","i","n","f","o">>
T_moreover == <<"m","o","r","e","o","v","e","r">>
T_Download ==
  <<"D","o","w","n","l","o","a","d"," ","t","h","e"," ","2","0","2","3"," ",
    "A","n","n","u","a","l"," ","R","e","p","o","r","t">>
T_click == <<"c","l","i","c","k">>
T_here == <<" ","h","e","r","e">>
T_More == <<" ","M","o","r","e"," ">>
T_details_nl == <<"d","e","t","a","i","l","s","\n","a","b","o","u","t">>
T_space == <<" ">>

LinkPalette ==
  {Anchor(Absent), Anchor(<<"">>), Anchor(<<"u">>), Node("span"),
   Text(T_ClickHere), Text(T_click_here_for_info), Text(T_moreover),
   Text(T_Download), Text(T_click), Text(T_here), Text(T_More),
   Text(T_details_nl), Text(T_space)}

MixPalette ==
  {Img(Absent), Img(<< <<"l","o","g","o">> >>),
   Control("input", Absent, Absent), Control("input", <<"hidden">>, Absent),
   Anchor(<<"u">>), Text(more), Node("div")}

(***************************************************************************)
(* The page under scan is any document of up to max nodes over a palette   *)
(* of elements: Compose appends one node to it, in document order.  Scan   *)
(* is run_accessibility_checks on the page as it stands.                   *)
(***************************************************************************)
Init ==
  /\ doc = <<>>
  /\ pc = "loaded"
  /\ issues = <<>>
  /\ status_sheet = <<>>
  /\ details_sheet = <<>>
  /\ request = <<>>
  /\ handled = <<>>
  /\ saved = <<>>
  /\ earlier = <<>>
  /\ tasks = <<>>
  /\ tmp = <<>>
  /\ now = 0

Compose(palette, max) ==
  /\ pc = "loaded"
  /\ Len(doc) < max
  /\ \E e \in palette, p \in open_parents(doc) :
       /\ can_append(doc, e, p)
       /\ doc' = Append(doc, [e EXCEPT !.parent = p])
  /\ UNCHANGED <<pc, issues, status_sheet, details_sheet, request, handled, saved, earlier, serve_vars>>

Scan ==
  /\ pc = "loaded"
  /\ issues' = run_accessibility_checks(doc)
  /\ pc' = "scanned"
  /\ UNCHANGED <<doc, status_sheet, details_sheet, request, handled, saved, earlier, serve_vars>>

NextImg == Compose(ImgPalette, MaxImgNodes) \/ Scan
SpecImg == Init /\ [][NextImg]_vars

NextForm == Compose(FormPalette, MaxFormNodes) \/ Scan
SpecForm == Init /\ [][NextForm]_vars

NextLink == Compose(LinkPalette, MaxLinkNodes) \/ Scan
SpecLink == Init /\ [][NextLink]_vars

Next == Compose(MixPalette, MaxMixNodes) \/ Scan
Spec == Init /\ [][Next]_vars

(***************************************************************************)
(* One scan after another, as a server process handles request after        *)
(* request: when a scan is over the next page is loaded, and the caller may *)
(* keep the page and the findings of the scan just made.  earlier is the    *)
(* scan kept, with whether other pages were scanned since.  issues stays    *)
(* the list the last call returned until the next call returns.            *)
(***************************************************************************)
MaxAgainNodes == 2

AgainPalette ==
  {Img(Absent), Img(<< <<"l","o","g","o">> >>), Control("input", Absent, Absent)}

NextPage ==
  /\ pc = "scanned"
  /\ \/ earlier' = [doc |-> doc, issues |-> issues, others |-> FALSE]
     \/ /\ earlier # <<>>
        /\ earlier' = [earlier EXCEPT !.others = TRUE]
     \/ /\ earlier = <<>>
        /\ earlier' = earlier
  /\ doc' = <<>>
  /\ pc' = "loaded"
  /\ UNCHANGED <<issues, status_sheet, details_sheet, request, handled, saved, serve_vars>>

NextAgain == Compose(AgainPalette, MaxAgainNodes) \/ Scan \/ NextPage
SpecAgain == Init /\ [][NextAgain]_vars

(***************************************************************************)
(* write_report on any list of finding records: Collect appends a record   *)
(* to the list, WriteReport is write_report(issues, ..., url=url).         *)
(***************************************************************************)
MaxIssues == 3

FullKeys == Range(expected_cols)

FieldValue(key, rule) ==
  CASE key = "rule" -> rule
    [] key = "level" -> "A"
    [] key = "selector" -> "img:nth-of-type(1)"
    [] OTHER -> "text"

FindingRecords ==
  {[k \in keys |-> FieldValue(k, rule)] :
     rule \in {"IMG_ALT", "FORM_LABEL", "LINK_TEXT"},
     keys \in {FullKeys, FullKeys \ {"selector"}, FullKeys \ {"context", "selector"}}}
  \cup {[k \in FullKeys |-> FieldValue(k, "OTHER")],
        [k \in FullKeys \ {"rule"} |-> FieldValue(k, "")]}

Labels == {Absent, <<"">>, <<"https://example.com">>}

InitReport ==
  /\ doc = <<>>
  /\ pc = "scanned"
  /\ issues = <<>>
  /\ status_sheet = <<>>
  /\ details_sheet = <<>>
  /\ request = <<>>
  /\ handled = <<>>
  /\ saved = <<>>
  /\ earlier = <<>>
  /\ tasks = <<>>
  /\ tmp = <<>>
  /\ now = 0

Collect ==
  /\ pc = "scanned"
  /\ Len(issues) < MaxIssues
  /\ \E r \in FindingRecords : issues' = Append(issues, r)
  /\ UNCHANGED <<doc, pc, status_sheet, details_sheet, request, handled, saved, earlier, serve_vars>>

\* request records the call: the label and what the environment answers.
WriteReport ==
  /\ pc = "scanned"
  /\ \E url \in Labels, logo \in LogoAnswers, styling \in StylingAnswers :
       LET result == write_report(issues, "report.xlsx", logo, styling, url)
       IN /\ request' = [url |-> url, logo |-> logo, styling |-> styling]
          /\ saved' = result.saved
          /\ IF result.raised
             THEN /\ pc' = "raised"
                  /\ UNCHANGED <<status_sheet, details_sheet>>
             ELSE /\ pc' = "reported"
                  /\ status_sheet' = result.saved[1].workbook.status
                  /\ details_sheet' = result.saved[1].workbook.details
  /\ UNCHANGED <<doc, issues, handled, earlier, serve_vars>>

NextReport == Collect \/ WriteReport
SpecReport == InitReport /\ [][NextReport]_vars

(***************************************************************************)
(* The front-ends: main (wcag_scanner.py), do_GET and do_POST (app.py) and  *)
(* scan (flask_app.py).  Each handles one request as one step, from the     *)
(* state in which no request has been handled yet.  A request               *)
(* parameter is Absent (None) or <<string>>.  What the network or the file  *)
(* system answers is an input of the step.  A page text is given by the     *)
(* document it parses to; <<>> is the empty string ''.  The loader result   *)
(* html is Absent (None) or <<text>>.                                       *)
(***************************************************************************)
PageTexts == {<<>>, <<Img(Absent)>>, <<Img(<< <<"l","o","g","o">> >>)>>}

\* requests.get(url, timeout=30): it raises, or answers with a status and a body.
NetAnswers ==
  {[raised |-> TRUE, status_code |-> 0, text |-> <<>>]}
    \cup {[raised |-> FALSE, status_code |-> st, text |-> t] :
            st \in {200, 403, 404}, t \in PageTexts}

\* The file named by a path: no such file, a file open() fails on, or its text.
FileAnswers ==
  {[isfile |-> FALSE, readable |-> FALSE, text |-> <<>>],
   [isfile |-> TRUE, readable |-> FALSE, text |-> <<>>]}
    \cup {[isfile |-> TRUE, readable |-> TRUE, text |-> t] : t \in PageTexts}

UrlParams == {Absent, <<"">>, <<"http://a">>}
FileParams == {Absent, <<"">>, <<"page.html">>}

fetch_html_from_url_strict(net) ==
  IF net.raised \/ net.status_code # 200 THEN Absent ELSE <<net.text>>

\* A non-200 status only prints a warning; the body is returned all the same.
fetch_html_from_url(net) ==
  IF net.raised THEN Absent ELSE <<net.text>>

read_local_file_lenient(fs) ==
  IF ~fs.isfile THEN <<fs.text>>
  ELSE IF ~fs.readable THEN Absent
  ELSE <<fs.text>>

read_local_file(fs) ==
  IF ~fs.isfile THEN Absent
  ELSE IF ~fs.readable THEN Absent
  ELSE <<fs.text>>

\* Python truthiness of an optional string parameter.
truthy(param) == param # Absent /\ param[1] # ""

\* not html
not_html(html) == html = Absent \/ html[1] = <<>>

\* html is None
is_none(html) == html = Absent

\* What one request did: the loader result, the arguments of each call of
\* run_accessibility_checks and of write_report, and the response.
\* loader is the loader called: "url" (fetch_html_from_url), "file"
\* (read_local_file) or "none".
Outcome(loader, html, scans, reports, response) ==
  [loader |-> loader, html |-> html, scan_args |-> scans,
   report_args |-> reports, response |-> response]

NoLoad(response) == Outcome("none", Absent, <<>>, <<>>, response)

loader_of(url) == IF truthy(url) THEN "url" ELSE "file"

json_error(status, error) == [kind |-> "json_error", status |-> status, error |-> error]

\* issues = run_accessibility_checks(html); write_report(issues, path, logo,
\* url=summary_id); then the report is sent.
scan_and_report(loader, html, output_path, summary_id, response) ==
  Outcome(loader, html, <<html[1]>>,
          <<[issues |-> run_accessibility_checks(html[1]),
             output_path |-> output_path, url |-> summary_id]>>,
          response)

report_response == [kind |-> "report", status |-> 200, error |-> ""]

\* main(): argparse has set exactly one of args.url and args.file.
main(url, file, net, fs) ==
  IF ~truthy(url) /\ file = Absent
  THEN NoLoad([kind |-> "crash", status |-> 0, error |-> "TypeError"])
  ELSE LET html == IF truthy(url) THEN fetch_html_from_url(net)
                   ELSE read_local_file(fs)
       IN IF not_html(html)
          THEN Outcome(loader_of(url), html, <<>>, <<>>,
                       [kind |-> "exit", status |-> 0,
                        error |-> "No HTML content was retrieved. Exiting."])
          ELSE scan_and_report(loader_of(url), html, "report.xlsx",
                               IF truthy(url) THEN url ELSE file,
                               [kind |-> "cli_report", status |-> 0, error |-> ""])

\* urllib.parse.parse_qs drops blank values: the key is then missing.
parse_qs_value(param) == IF param = <<"">> THEN Absent ELSE param

\* The /scan branch of do_GET (app.py:94-127).
do_GET_scan(q_url, q_file, net, fs) ==
  LET url == parse_qs_value(q_url)
      file_path == parse_qs_value(q_file)
  IN IF ~truthy(url) /\ ~truthy(file_path)
     THEN NoLoad(json_error(400, "Please provide a url or file parameter."))
     ELSE LET html == IF truthy(url) THEN fetch_html_from_url(net)
                      ELSE read_local_file(fs)
          IN IF is_none(html)
             THEN Outcome(loader_of(url), html, <<>>, <<>>,
                          json_error(500, IF truthy(url) THEN "Unable to retrieve content"
                                          ELSE "Unable to read file"))
             ELSE scan_and_report(loader_of(url), html, "/tmp/report.xlsx",
                                  IF truthy(url) THEN url ELSE file_path,
                                  report_response)

served(exists) ==
  IF exists THEN [kind |-> "file", status |-> 200, error |-> ""]
  ELSE [kind |-> "empty", status |-> 404, error |-> ""]

do_GET(path, exists, q_url, q_file, net, fs) ==
  IF path = "/" THEN NoLoad(served(exists))
  ELSE IF path = "/scan" THEN do_GET_scan(q_url, q_file, net, fs)
  ELSE IF path = "/static/logo.png" THEN NoLoad(served(exists))
  ELSE NoLoad(served(FALSE))

\* do_POST (app.py:136-193).  body is "object" (a JSON object or a form with
\* the parameters), "invalid" (not JSON) or "array" (JSON, but no object).
do_POST(path, content_type, body, p_url, p_file, net, fs) ==
  IF path # "/scan" THEN NoLoad(served(FALSE))
  ELSE IF content_type = "application/json" /\ body = "invalid"
  THEN NoLoad(json_error(400, "Invalid JSON body."))
  ELSE IF content_type = "application/json" /\ body = "array"
  THEN NoLoad([kind |-> "crash", status |-> 0, error |-> "AttributeError"])
  ELSE IF content_type \notin {"application/json", "application/x-www-form-urlencoded"}
  THEN NoLoad(json_error(415, "Unsupported Content-Type"))
  ELSE
  LET url == IF content_type = "application/json" THEN p_url ELSE parse_qs_value(p_url)
      file_path == IF content_type = "application/json" THEN p_file
                   ELSE parse_qs_value(p_file)
  IN IF ~truthy(url) /\ ~truthy(file_path)
     THEN NoLoad(json_error(400, "Please provide a url or file parameter."))
     ELSE LET html == IF truthy(url) THEN fetch_html_from_url(net)
                      ELSE read_local_file(fs)
          IN IF is_none(html)
             THEN Outcome(loader_of(url), html, <<>>, <<>>,
                          json_error(500, IF truthy(url) THEN "Unable to retrieve content"
                                          ELSE "Unable to read file"))
             ELSE scan_and_report(loader_of(url), html, "/tmp/report.xlsx",
                                  IF truthy(url) THEN url ELSE file_path,
                                  report_response)

\* scan() of flask_app.py (46-95).  For a JSON POST, get_json(silent=True) or {}
\* makes an invalid body an empty object.
flask_scan(method, is_json, body, p_url, p_file, net, fs) ==
  IF method = "POST" /\ is_json /\ body = "array"
  THEN NoLoad([kind |-> "crash", status |-> 500, error |-> "AttributeError"])
  ELSE
  LET no_params == method = "POST" /\ is_json /\ body = "invalid"
      url == IF no_params THEN Absent ELSE p_url
      file_path == IF no_params THEN Absent ELSE p_file
  IN IF ~truthy(url) /\ ~truthy(file_path)
     THEN NoLoad(json_error(400, "Please provide a URL or file parameter."))
     ELSE LET html == IF truthy(url) THEN fetch_html_from_url(net)
                      ELSE read_local_file(fs)
          IN IF is_none(html)
             THEN Outcome(loader_of(url), html, <<>>, <<>>,
                          json_error(500, IF truthy(url) THEN "Unable to retrieve content"
                                          ELSE "Unable to read file"))
             ELSE scan_and_report(loader_of(url), html, "/tmp/report.xlsx",
                                  IF truthy(url) THEN url ELSE file_path,
                                  report_response)

\* The path '' names no file: os.path.isfile('') is False.
FileAnswersFor(file) ==
  IF file = <<"">> THEN {fs \in FileAnswers : ~fs.isfile} ELSE FileAnswers

Request(frontend, url, file, net, fs) ==
  [frontend |-> frontend, url |-> url, file |-> file, net |-> net, fs |-> fs]

InitFront ==
  /\ doc = <<>>
  /\ pc = "loaded"
  /\ issues = <<>>
  /\ status_sheet = <<>>
  /\ details_sheet = <<>>
  /\ request = <<>>
  /\ handled = <<>>
  /\ saved = <<>>
  /\ earlier = <<>>
  /\ tasks = <<>>
  /\ tmp = <<>>
  /\ now = 0

Main ==
  /\ request = <<>>
  /\ \E url \in UrlParams, file \in FileParams, net \in NetAnswers :
       \E fs \in FileAnswersFor(file) :
         /\ (url = Absent) # (file = Absent)
         /\ request' = Request("main", url, file, net, fs)
         /\ handled' = main(url, file, net, fs)
  /\ UNCHANGED <<scan_vars, serve_vars>>

DoGet ==
  /\ request = <<>>
  /\ \E path \in {"/", "/scan", "/static/logo.png", "/nope"}, exists \in BOOLEAN,
        url \in UrlParams, file \in FileParams, net \in NetAnswers :
       \E fs \in FileAnswersFor(file) :
         /\ request' = Request("do_GET", url, file, net, fs)
         /\ handled' = do_GET(path, exists, url, file, net, fs)
  /\ UNCHANGED <<scan_vars, serve_vars>>

DoPost ==
  /\ request = <<>>
  /\ \E path \in {"/scan", "/nope"},
        content_type \in {"application/json", "application/x-www-form-urlencoded",
                          "text/plain"},
        body \in {"object", "invalid", "array"},
        url \in UrlParams, file \in FileParams, net \in NetAnswers :
       \E fs \in FileAnswersFor(file) :
         /\ request' = Request("do_POST", url, file, net, fs)
         /\ handled' = do_POST(path, content_type, body, url, file, net, fs)
  /\ UNCHANGED <<scan_vars, serve_vars>>

FlaskScan ==
  /\ request = <<>>
  /\ \E method \in {"GET", "POST"}, is_json \in BOOLEAN,
        body \in {"object", "invalid", "array"},
        url \in UrlParams, file \in FileParams, net \in NetAnswers :
       \E fs \in FileAnswersFor(file) :
         /\ request' = Request("flask_scan", url, file, net, fs)
         /\ handled' = flask_scan(method, is_json, body, url, file, net, fs)
  /\ UNCHANGED <<scan_vars, serve_vars>>

NextFront == Main \/ DoGet \/ DoPost \/ FlaskScan
SpecFront == InitFront /\ [][NextFront]_vars

(***************************************************************************)
(* The /scan requests of the two servers, step by step, from the scan to    *)
(* the response: scan and timestamp, write_report to                        *)
(* /tmp/report_<timestamp>.xlsx, open and read that file, os.remove, send.  *)
(* tmp[s] is the file whose name carries second s: <<>> when there is none, *)
(* else <<workbook>>.  now is the UTC second the clock shows.  Requests of  *)
(* the Flask server run in threads of their own; an HTTPServer of app.py    *)
(* handles one request at a time.  The servers' logo is in place and no     *)
(* styling step raises.                                                     *)
(***************************************************************************)
MaxSeconds == 2

Tasks == {1, 2}

ScanUrls == {"http://a", "http://b"}

LOGO_PATH == [path |-> "static/logo.png", isfile |-> TRUE, loads |-> TRUE, embeds |-> TRUE]

Idle ==
  [pc |-> "idle", server |-> "", issues |-> <<>>, label |-> "", ts |-> 0,
   buffer |-> <<>>, response |-> <<>>]

\* The task is between its timestamp and its end.
InFlight(r) == tasks[r].pc \in {"stamped", "written", "served", "read", "removed"}

\* The request is over: it returned, or an exception ended it.
Finished(r) == tasks[r].pc \in {"done", "aborted", "failed"}

InitServe ==
  /\ doc = <<>>
  /\ pc = "loaded"
  /\ issues = <<>>
  /\ status_sheet = <<>>
  /\ details_sheet = <<>>
  /\ request = <<>>
  /\ handled = <<>>
  /\ saved = <<>>
  /\ earlier = <<>>
  /\ tasks = [r \in Tasks |-> Idle]
  /\ tmp = [s \in 1..MaxSeconds |-> <<>>]
  /\ now = 1

Tick ==
  /\ now < MaxSeconds
  /\ now' = now + 1
  /\ UNCHANGED <<scan_vars, request, handled, tasks, tmp>>

\* issues = run_accessibility_checks(html); timestamp = datetime.utcnow()...
Accept(r) ==
  /\ tasks[r].pc = "idle"
  /\ \E server \in {"app", "flask"}, page \in PageTexts, url \in ScanUrls :
       /\ server = "app" =>
            \A q \in Tasks \ {r} : ~(tasks[q].server = "app" /\ InFlight(q))
       /\ tasks' = [tasks EXCEPT ![r] =
                      [pc |-> "stamped", server |-> server,
                       issues |-> run_accessibility_checks(page), label |-> url,
                       ts |-> now, buffer |-> <<>>, response |-> <<>>]]
  /\ UNCHANGED <<scan_vars, request, handled, tmp, now>>

\* The workbook write_report makes of the task's findings and label.
own_report(r) ==
  write_report(tasks[r].issues, tasks[r].ts, LOGO_PATH, "styled",
               <<tasks[r].label>>).saved[1].workbook

\* write_report(issues, tmp_path, LOGO_PATH, url=summary_id)
Write(r) ==
  /\ tasks[r].pc = "stamped"
  /\ tmp' = [tmp EXCEPT ![tasks[r].ts] = <<own_report(r)>>]
  /\ tasks' = [tasks EXCEPT ![r].pc = "written"]
  /\ UNCHANGED <<scan_vars, request, handled, now>>

\* _serve_file(tmp_path, ...) of app.py: FileNotFoundError is answered with an
\* empty 404; any other exception, as wfile.write raises when the client has
\* closed the connection, leaves _serve_file and the handler.
ServeFile(r) ==
  /\ tasks[r].pc = "written"
  /\ tasks[r].server = "app"
  /\ LET file == tmp[tasks[r].ts] IN
     IF file = <<>>
     THEN tasks' = [tasks EXCEPT ![r].pc = "served",
                                 ![r].response = [kind |-> "empty", status |-> 404,
                                                  report |-> <<>>]]
     ELSE \/ tasks' = [tasks EXCEPT ![r].pc = "served",
                                    ![r].buffer = file,
                                    ![r].response = [kind |-> "report", status |-> 200,
                                                     report |-> file]]
          \/ tasks' = [tasks EXCEPT ![r].pc = "aborted",
                                    ![r].buffer = file,
                                    ![r].response = [kind |-> "lost", status |-> 200,
                                                     report |-> <<>>]]
  /\ UNCHANGED <<scan_vars, request, handled, tmp, now>>

\* with open(tmp_path, 'rb') as fh: buffer.write(fh.read()) of flask_app.py: a
\* missing file raises, and Flask answers 500.
ReadFile(r) ==
  /\ tasks[r].pc = "written"
  /\ tasks[r].server = "flask"
  /\ LET file == tmp[tasks[r].ts] IN
     IF file = <<>>
     THEN tasks' = [tasks EXCEPT ![r].pc = "failed",
                                 ![r].response = [kind |-> "error", status |-> 500,
                                                  report |-> <<>>]]
     ELSE tasks' = [tasks EXCEPT ![r].pc = "read", ![r].buffer = file]
  /\ UNCHANGED <<scan_vars, request, handled, tmp, now>>

\* try: os.remove(tmp_path) except OSError: pass
Remove(r) ==
  /\ tasks[r].pc \in {"served", "read"}
  /\ tmp' = [tmp EXCEPT ![tasks[r].ts] = <<>>]
  /\ tasks' = [tasks EXCEPT ![r].pc = IF tasks[r].server = "app" THEN "done"
                                     ELSE "removed"]
  /\ UNCHANGED <<scan_vars, request, handled, now>>

\* return send_file(buffer, ...)
SendFile(r) ==
  /\ tasks[r].pc = "removed"
  /\ \/ tasks' = [tasks EXCEPT ![r].pc = "done",
                               ![r].response = [kind |-> "report", status |-> 200,
                                                report |-> tasks[r].buffer]]
     \/ tasks' = [tasks EXCEPT ![r].pc = "done",
                               ![r].response = [kind |-> "lost", status |-> 200,
                                                report |-> <<>>]]
  /\ UNCHANGED <<scan_vars, request, handled, tmp, now>>

NextServe ==
  \/ Tick
  \/ \E r \in Tasks : Accept(r)
  \/ \E r \in Tasks : Write(r)
  \/ \E r \in Tasks : ServeFile(r)
  \/ \E r \in Tasks : ReadFile(r)
  \/ \E r \in Tasks : Remove(r)
  \/ \E r \in Tasks : SendFile(r)

SpecServe == InitServe /\ [][NextServe]_vars

(***************************************************************************)
(* Properties of the scan.                                                 *)
(***************************************************************************)
Scanned == pc = "scanned"

\* The findings of a rule that point at element i.
FindingsFor(rule, i) ==
  {k \in DOMAIN issues : issues[k].rule = rule /\ issues[k].node = i}

Flagged(rule, i) == FindingsFor(rule, i) # {}

Elements(tags) == {i \in DOMAIN doc : doc[i].tag \in tags}

\* The alt attribute is absent, or every character of its value is whitespace.
AltBlank(i) ==
  doc[i].alt = Absent
    \/ \A k \in DOMAIN doc[i].alt[1] : doc[i].alt[1][k] \in Whitespace

\* C1: every img gets exactly one IMG_ALT finding when its alt is absent or
\* whitespace-only, and none when alt has a non-whitespace character.
C1_MissingAlt ==
  Scanned =>
    \A i \in Elements({"img"}) :
      Cardinality(FindingsFor("IMG_ALT", i)) = IF AltBlank(i) THEN 1 ELSE 0

C1_Witness ==
  /\ Scanned
  /\ \E i, j, k \in Elements({"img"}) :
       /\ doc[i].alt = Absent /\ Flagged("IMG_ALT", i)
       /\ doc[j].alt # Absent /\ doc[j].alt[1] # <<>> /\ Flagged("IMG_ALT", j)
       /\ doc[k].alt # Absent /\ ~Flagged("IMG_ALT", k)

IsAncestor(a, i) == a \in Range(parents(doc, i))

\* (a), (b) and (c) of the Missing Form Label rule, for control i.
ExcludedInput(i) ==
  doc[i].tag = "input"
    /\ doc[i].type \in {<<"hidden">>, <<"submit">>, <<"button">>, <<"image">>}

InsideLabel(i) == \E l \in Elements({"label"}) : IsAncestor(l, i)

LabelledById(i) ==
  /\ doc[i].id \notin {Absent, <<"">>}
  /\ \E l \in Elements({"label"}) : doc[l].for = doc[i].id

Unlabelled(i) == ~ExcludedInput(i) /\ ~InsideLabel(i) /\ ~LabelledById(i)

FormControls == Elements({"input", "select", "textarea"})

NormText(i) == lower(strip(get_text(doc, i)))

\* Empty, a generic phrase, or a generic phrase immediately followed by a space.
GenericText(t) ==
  \/ Len(t) = 0
  \/ \E ph \in {click_here, more, read_more, learn_more, details} :
       \/ t = ph
       \/ Len(t) > Len(ph) /\ SubSeq(t, 1, Len(ph)) = ph /\ t[Len(ph) + 1] = " "

HrefAnchors == {i \in Elements({"a"}) : doc[i].href # Absent}

\* C3: an anchor carrying href gets exactly one LINK_TEXT finding iff its
\* normalised text is empty, a generic phrase, or starts with one followed by a
\* space; 'Click Here' (any case) and 'click here for info' are flagged,
\* 'moreover' and 'Download the 2023 Annual Report' are not.
C3_GenericLinkText ==
  Scanned =>
    \A i \in HrefAnchors :
      /\ Cardinality(FindingsFor("LINK_TEXT", i))
           = IF GenericText(NormText(i)) THEN 1 ELSE 0
      /\ lower(get_text(doc, i)) = click_here => Flagged("LINK_TEXT", i)
      /\ get_text(doc, i) = T_click_here_for_info => Flagged("LINK_TEXT", i)
      /\ get_text(doc, i) \in {T_moreover, T_Download} => ~Flagged("LINK_TEXT", i)

C3_Witness ==
  /\ Scanned
  /\ \E i, j \in HrefAnchors :
       /\ get_text(doc, i) = T_ClickHere /\ Flagged("LINK_TEXT", i)
       /\ get_text(doc, j) = T_moreover /\ ~Flagged("LINK_TEXT", j)

\* C4 as stated: an anchor whose href is missing or empty never gets a LINK_TEXT
\* finding.
C4_EmptyHrefNeverFlagged ==
  Scanned =>
    \A i \in Elements({"a"}) :
      doc[i].href \in {Absent, <<"">>} => ~Flagged("LINK_TEXT", i)

\* C4 amended: an anchor with no href attribute never gets a LINK_TEXT finding,
\* whatever its text; an anchor whose href is present but empty is evaluated
\* like any other anchor carrying href.
C4_NoHrefNeverFlagged ==
  Scanned =>
    \A i \in Elements({"a"}) :
      /\ doc[i].href = Absent => ~Flagged("LINK_TEXT", i)
      /\ doc[i].href = <<"">> =>
           (Flagged("LINK_TEXT", i) <=> GenericText(NormText(i)))

C4_Witness ==
  /\ Scanned
  /\ \E i, j \in Elements({"a"}) :
       /\ doc[i].href = Absent /\ get_text(doc, i) = T_ClickHere
       /\ ~Flagged("LINK_TEXT", i)
       /\ doc[j].href = <<"">> /\ Flagged("LINK_TEXT", j)

\* The 1-based position of element i among the children of its parent that
\* have its tag name.
SiblingPosition(i) ==
  Cardinality({j \in 1..i : doc[j].parent = doc[i].parent /\ doc[j].tag = doc[i].tag})

\* C5: the index in a finding's selector is the position of the flagged element
\* among the same-tag elements whose immediate parent is its parent.
C5_SelectorIsSiblingPosition ==
  Scanned =>
    \A k \in DOMAIN issues :
      issues[k].selector.nth = SiblingPosition(issues[k].node)

\* Elements i and j are different children of one parent with the same markup.
IdenticalSiblings(i, j) ==
  /\ i # j
  /\ doc[i].parent = doc[j].parent
  /\ markup(doc, i) = markup(doc, j)

\* Every element below i's parent that has i's tag name is a child of that
\* parent: none is nested deeper.
OnlySiblingsBelowParent(i) ==
  \A j \in Elements({doc[i].tag}) :
    IsAncestor(doc[i].parent, j) => doc[j].parent = doc[i].parent

\* C14: a flagged element that has a sibling with identical markup gets its own
\* 1-based position among its same-tag siblings as selector index, so that two
\* identical flagged siblings get 1 and 2.
C14_IdenticalSiblingsOwnPosition ==
  Scanned =>
    \A k \in DOMAIN issues :
      LET i == issues[k].node IN
      ((\E j \in DOMAIN doc : IdenticalSiblings(i, j)) /\ OnlySiblingsBelowParent(i))
        => issues[k].selector.nth = SiblingPosition(i)

\* The page scanned now is the page of the scan kept earlier.
ScannedAgain == Scanned /\ earlier # <<>> /\ earlier.doc = doc

RuleRank(rule) ==
  CASE rule = "IMG_ALT" -> 1 [] rule = "FORM_LABEL" -> 2 [] rule = "LINK_TEXT" -> 3

FlaggedElements ==
  {<<1, i>> : i \in {j \in Elements({"img"}) : AltBlank(j)}}
    \cup {<<2, i>> : i \in {j \in FormControls : Unlabelled(j)}}
    \cup {<<3, i>> : i \in {j \in HrefAnchors : GenericText(NormText(j))}}

\* C6: the findings are grouped by rule in the order IMG_ALT, FORM_LABEL,
\* LINK_TEXT, in document order within a rule, and none is dropped or merged.
C6_RuleOrder ==
  Scanned =>
    /\ \A k, m \in DOMAIN issues :
         k < m =>
           /\ RuleRank(issues[k].rule) <= RuleRank(issues[m].rule)
           /\ issues[k].rule = issues[m].rule => issues[k].node < issues[m].node
    /\ {<<RuleRank(issues[k].rule), issues[k].node>> : k \in DOMAIN issues}
         = FlaggedElements
    /\ Len(issues) = Cardinality(FlaggedElements)

C6_Witness ==
  /\ Scanned
  /\ \E k, m, n \in DOMAIN issues :
       /\ k < m /\ m < n
       /\ issues[k].rule = "IMG_ALT" /\ issues[m].rule = "FORM_LABEL"
       /\ issues[n].rule = "LINK_TEXT"
       /\ issues[m].node < issues[k].node
       /\ issues[n].node < issues[m].node

(***************************************************************************)
(* Properties of the report.                                               *)
(***************************************************************************)
Reported == pc = "reported"

CountOf(rule) ==
  Cardinality({k \in DOMAIN issues :
                 "rule" \in DOMAIN issues[k] /\ issues[k].rule = rule})

\* The column of the Status sheet headed by the rule's name.
StatusColumn(rule) ==
  CASE rule = "IMG_ALT" -> 2 [] rule = "FORM_LABEL" -> 3 [] rule = "LINK_TEXT" -> 4

\* C9: the summary holds, for each rule, the count of its findings and a status
\* that is Pass exactly when the count is 0, and a grand total equal to the
\* number of findings; the detail view has one row per finding, in list order.
C9_SummaryAndDetail ==
  Reported =>
    /\ \A rule \in {"IMG_ALT", "FORM_LABEL", "LINK_TEXT"} :
         /\ \E c \in 1..4 :
              /\ status_sheet.data[c].t = "int"
              /\ status_sheet.data[c].v = CountOf(rule)
         /\ status_sheet.data[StatusColumn(rule)]
              = IF CountOf(rule) = 0 THEN Str("Pass") ELSE Str("Fail")
    /\ status_sheet.data[5] = Num(Len(issues))
    /\ Len(details_sheet.rows) = Len(issues)
    /\ \A k \in DOMAIN issues : \A c \in DOMAIN expected_cols :
         expected_cols[c] \in DOMAIN issues[k] =>
           details_sheet.rows[k][c] = Str(issues[k][expected_cols[c]])

\* C10: each detail row has a str value in every expected column, the empty
\* string wherever the record did not set the field.
C10_DetailFieldsAreStrings ==
  Reported =>
    \A k \in DOMAIN issues : \A c \in DOMAIN expected_cols :
      /\ details_sheet.rows[k][c].t = "str"
      /\ expected_cols[c] \notin DOMAIN issues[k] =>
           details_sheet.rows[k][c] = Str("")

\* write_report has returned or raised.
ReportCallOver == pc \in {"reported", "raised"}

\* The call met a rendering failure: no logo file, a logo that cannot be loaded
\* as an image (when it is inserted or when it is embedded), a styling step
\* that raised.
LogoMissing == request.logo.path = "" \/ ~request.logo.isfile
LogoUnloadable == ~LogoMissing /\ (~request.logo.loads \/ ~request.logo.embeds)
StylingFailed == request.styling = "raises"

\* The report was saved with both views.
SavedBothViews ==
  /\ pc = "reported"
  /\ saved # <<>>
  /\ saved[1].workbook.status = status_rows(issues, request.url)
  /\ saved[1].workbook.details = details_rows(issues)

\* C11: whenever the logo file is missing, the logo cannot be loaded as an
\* image or a styling step fails, write_report still saves the report with
\* both views.
C11_RenderingFailureSwallowed ==
  (ReportCallOver /\ (LogoMissing \/ LogoUnloadable \/ StylingFailed))
    => SavedBothViews

(***************************************************************************)
(* Properties of the front-ends.                                           *)
(***************************************************************************)
Handled == handled # <<>>

\* The request fetched its url and the server answered with a non-200 status.
Non200 ==
  /\ Handled
  /\ handled.loader = "url"
  /\ ~request.net.raised
  /\ request.net.status_code # 200

ErrorResponse == handled.response.kind \in {"json_error", "exit"}

LoaderFailed ==
  /\ Handled
  /\ \/ handled.loader = "url" /\ request.net.raised
     \/ handled.loader = "file" /\ ~(request.fs.isfile /\ request.fs.readable)

\* C8: when the loader fails its result is None, the request ends with an error
\* (HTTP 500 JSON error, or the exit message of main), and neither the scan nor
\* write_report is called; the scan is only ever called on the text the loader
\* returned, and the report only written after a scan.
C8_NoScanWithoutContent ==
  Handled =>
    /\ LoaderFailed =>
         /\ handled.html = Absent
         /\ IF request.frontend = "main"
            THEN handled.response.kind = "exit"
            ELSE handled.response.kind = "json_error" /\ handled.response.status = 500
         /\ handled.scan_args = <<>>
         /\ handled.report_args = <<>>
    /\ handled.scan_args # <<>> =>
         /\ handled.loader # "none"
         /\ handled.html # Absent
         /\ handled.scan_args = <<handled.html[1]>>
    /\ handled.report_args # <<>> => handled.scan_args # <<>>

C8_Witness ==
  /\ LoaderFailed
  /\ handled.loader = "file"
  /\ ~request.fs.isfile
  /\ request.frontend = "do_POST"
  /\ handled.response.status = 500
  /\ handled.scan_args = <<>>


\* What the scan/report contract sees of a request: the HTML each call of
\* run_accessibility_checks got, the findings and the label each call of
\* write_report got, and whether the request ended in an error.
Contract(outcome) ==
  [scans |-> outcome.scan_args,
   reports |-> [k \in DOMAIN outcome.report_args |->
                  [issues |-> outcome.report_args[k].issues,
                   url |-> outcome.report_args[k].url]],
   error |-> outcome.response.kind \notin {"report", "cli_report"}]

\* The request of this state given to each front-end, with the same answers of
\* the network and the file system.
EveryFrontEnd ==
  LET u == request.url
      f == request.file
      net == request.net
      fs == request.fs
  IN {main(u, f, net, fs),
      do_GET("/scan", TRUE, u, f, net, fs),
      do_POST("/scan", "application/json", "object", u, f, net, fs),
      do_POST("/scan", "application/x-www-form-urlencoded", "object", u, f, net, fs),
      flask_scan("GET", FALSE, "object", u, f, net, fs),
      flask_scan("POST", FALSE, "object", u, f, net, fs),
      flask_scan("POST", TRUE, "object", u, f, net, fs)}

\* The request named one source, as the command line requires, and its
\* front-end called the content loader.
LoadedOneSource ==
  /\ Handled
  /\ handled.loader # "none"
  /\ (request.url = Absent) # (request.file = Absent)

\* C12: for the same url and file parameters and the same loader result, every
\* front-end does what the one that handled the request did: all scan the same
\* HTML and write one report with the same findings and label, or all end in an
\* error without a report.
C12_FrontEndsAgree ==
  LoadedOneSource =>
    /\ \A o \in EveryFrontEnd : Contract(o) = Contract(handled)
    /\ \/ Len(handled.scan_args) = 1 /\ Len(handled.report_args) = 1
       \/ ErrorResponse /\ handled.scan_args = <<>> /\ handled.report_args = <<>>


(***************************************************************************)
(* Properties of the /scan requests.                                       *)
(***************************************************************************)
\* The two requests took their timestamps in the same second, so that they use
\* the same temporary file.
SameSecond == \A r \in Tasks : tasks[r].pc # "idle" /\ tasks[r].ts = tasks[1].ts

\* The request got an answer, and the client was there to receive it.
Answered(r) == tasks[r].response # <<>> /\ tasks[r].response.kind # "lost"

\* C15: of two /scan requests stamped in the same second, each one that is
\* answered gets the report made of its own findings and label: none gets an
\* error, an empty response or the other request's report.
C15_OwnReport ==
  SameSecond =>
    \A r \in Tasks :
      Answered(r) =>
        /\ tasks[r].response.kind = "report"
        /\ tasks[r].response.report = <<own_report(r)>>

\* C16: once the requests that were made are over, whether the response was
\* sent or opening or sending the file failed, no temporary file is left.
C16_NoTempFileLeft ==
  ((\E r \in Tasks : Finished(r)) /\ (\A r \in Tasks : ~InFlight(r)))
    => \A s \in DOMAIN tmp : tmp[s] = <<>>

====
